---------------------------- MODULE Spec2Model ----------------------------
(***************************************************************************)
(* A model of telegram_gym_bot.py: the two SQLite tables (users, workouts), *)
(* the ConversationHandler's per-user conversation state, the per-user      *)
(* context.user_data dictionary, the calendar day, the generation-service   *)
(* call in flight with the request it sent, and the messages sent while     *)
(* handling the last update.                                               *)
(*                                                                         *)
(* Texts are sequences of one-character strings, so that strip(), split(),  *)
(* lower(), replace(), startswith(), isdigit(), int() and float() are       *)
(* modelled by what they do.  A Cyrillic letter is written as "#" followed  *)
(* by its Latin transliteration ("#d" is the letter De, "#D" its capital),  *)
(* an Arabic-Indic digit as "ar3", a superscript digit as "^2".             *)
(*                                                                         *)
(* A value that may be absent (Python None, SQL NULL, a missing dictionary  *)
(* key) is a sequence of length at most one: <<>> is None, <<v>> is v.      *)
(* A date is its day ordinal (date.toordinal()); the ISO strings the code   *)
(* stores compare and subtract as their ordinals do.                        *)
(***************************************************************************)
EXTENDS Integers, Sequences, FiniteSets, TLC

VARIABLES users, workouts, conv, user_data, today, inflight, request, event, replies

vars == <<users, workouts, conv, user_data, today, inflight, request, event, replies>>

-----------------------------------------------------------------------------
(* Bounds of the model *)

\* the clock stops advancing at this day
MaxDay == 1
\* no completion record is appended once the table holds this many rows
MaxWorkouts == 2

-----------------------------------------------------------------------------
(* Conversation states *)

REGISTRATION == 0
MAIN_MENU == 1
EDIT_HEIGHT == 2
EDIT_WEIGHT == 3
EDIT_DAYS == 4
EDIT_EXPERIENCE == 5
EDIT_GOAL == 6
EDIT_NAME == 7
CONFIRM_DELETE == 8
\* ConversationHandler.END: the conversation is over, its key is removed
END == -1

States == {REGISTRATION, MAIN_MENU, EDIT_HEIGHT, EDIT_WEIGHT, EDIT_DAYS,
           EDIT_EXPERIENCE, EDIT_GOAL, EDIT_NAME, CONFIRM_DELETE}

\* Telegram user ids
Users == {1, 2}
\* the user whose updates the specification Spec delivers
SoloUsers == {1}

None == <<>>
Some(v) == <<v>>
IsNone(o) == o = <<>>
Val(o) == o[1]

-----------------------------------------------------------------------------
(* Python str operations on texts *)

Whitespace == {" ", "\t", "\n"}

\* the cased letters of the texts the model sends
UpperChars == <<"A", "B", "D", "E", "I", "L", "N", "O", "S", "V", "Y",
                "#D", "#A", "#N", "#R", "#I", "#P", "#S", "#V", "#U", "#M", "#T">>
LowerChars == <<"a", "b", "d", "e", "i", "l", "n", "o", "s", "v", "y",
                "#d", "#a", "#n", "#r", "#i", "#p", "#s", "#v", "#u", "#m", "#t">>

LowerChar(c) ==
    IF \E i \in 1..Len(UpperChars) : UpperChars[i] = c
    THEN LowerChars[CHOOSE i \in 1..Len(UpperChars) : UpperChars[i] = c]
    ELSE c

UpperChar(c) ==
    IF \E i \in 1..Len(LowerChars) : LowerChars[i] = c
    THEN UpperChars[CHOOSE i \in 1..Len(LowerChars) : LowerChars[i] = c]
    ELSE c

\* str.lower()
Lower(t) == [i \in 1..Len(t) |-> LowerChar(t[i])]

\* str.capitalize() of an all-lowercase label: the text a menu button sends
Cap(t) == IF t = <<>> THEN t ELSE <<UpperChar(t[1])>> \o Tail(t)

RECURSIVE LStrip(_)
LStrip(t) ==
    IF t = <<>> THEN t
    ELSE IF t[1] \in Whitespace THEN LStrip(Tail(t)) ELSE t

RECURSIVE RStrip(_)
RStrip(t) ==
    IF t = <<>> THEN t
    ELSE IF t[Len(t)] \in Whitespace THEN RStrip(SubSeq(t, 1, Len(t) - 1)) ELSE t

\* str.strip()
Strip(t) == RStrip(LStrip(t))

\* the length of the longest whitespace-free prefix of t
RECURSIVE WordLen(_)
WordLen(t) ==
    IF t = <<>> \/ t[1] \in Whitespace THEN 0 ELSE 1 + WordLen(Tail(t))

\* str.split(): the maximal whitespace-free runs of t, in order
RECURSIVE Split(_)
Split(t) ==
    LET s == LStrip(t)
        n == WordLen(s)
    IN IF s = <<>> THEN <<>>
       ELSE <<SubSeq(s, 1, n)>> \o Split(SubSeq(s, n + 1, Len(s)))

\* " ".join(parts)
RECURSIVE Join(_)
Join(parts) ==
    IF parts = <<>> THEN <<>>
    ELSE IF Len(parts) = 1 THEN parts[1]
    ELSE parts[1] \o <<" ">> \o Join(Tail(parts))

\* str.replace(a, b) for one-character a and b
Replace(t, a, b) == [i \in 1..Len(t) |-> IF t[i] = a THEN b ELSE t[i]]

\* startswith(p) that also accepts a text that is a prefix of p
StartsWithOrStarts(t, p) ==
    LET n == IF Len(t) < Len(p) THEN Len(t) ELSE Len(p)
    IN n > 0 /\ SubSeq(t, 1, n) = SubSeq(p, 1, n)

\* str.startswith(p)
StartsWith(t, p) == Len(t) >= Len(p) /\ SubSeq(t, 1, Len(p)) = p

-----------------------------------------------------------------------------
(* Python numbers *)

AsciiDigits == <<"0", "1", "2", "3", "4", "5", "6", "7", "8", "9">>
\* Arabic-Indic digits: Unicode category Nd, accepted by isdigit(), int(), float()
ArabicDigits == <<"ar0", "ar1", "ar2", "ar3", "ar4", "ar5", "ar6", "ar7", "ar8", "ar9">>
\* superscript digits: category No, accepted by isdigit() but not by int()
SuperscriptDigits == {"^1", "^2", "^3"}

IsDecimalChar(c) ==
    \E i \in 1..10 : AsciiDigits[i] = c \/ ArabicDigits[i] = c

DecimalValue(c) ==
    (CHOOSE i \in 1..10 : AsciiDigits[i] = c \/ ArabicDigits[i] = c) - 1

\* str.isdigit()
IsDigit(t) ==
    /\ t # <<>>
    /\ \A i \in 1..Len(t) : IsDecimalChar(t[i]) \/ t[i] \in SuperscriptDigits

IsDecimalText(t) == t # <<>> /\ \A i \in 1..Len(t) : IsDecimalChar(t[i])

\* the number a run of decimal digits denotes
RECURSIVE DigitsValue(_)
DigitsValue(t) ==
    IF t = <<>> THEN 0
    ELSE 10 * DigitsValue(SubSeq(t, 1, Len(t) - 1)) + DecimalValue(t[Len(t)])

\* int(text) of a text for which isdigit() holds: the value, or ValueError
ParseInt(t) ==
    IF IsDecimalText(t) THEN [ok |-> TRUE, val |-> DigitsValue(t)]
    ELSE [ok |-> FALSE, val |-> 0]

RECURSIVE Pow10(_)
Pow10(n) == IF n = 0 THEN 1 ELSE 10 * Pow10(n - 1)

\* A float: cls "fin" is the number m / 10^e, with m not a multiple of 10
\* unless e = 0; cls "inf" is +-infinity with the sign of m; cls "nan".
RECURSIVE Fin(_, _)
Fin(m, e) ==
    IF e > 0 /\ m % 10 = 0 THEN Fin(m \div 10, e - 1)
    ELSE [cls |-> "fin", m |-> m, e |-> e]
Inf(sign) == [cls |-> "inf", m |-> sign, e |-> 0]
NaN == [cls |-> "nan", m |-> 0, e |-> 0]

\* x <= 0 on floats: every comparison with nan is false
FloatLeZero(x) == x.cls # "nan" /\ x.m <= 0
\* x > 0 on floats
FloatGtZero(x) == x.cls # "nan" /\ x.m > 0
\* x == 0 on floats
FloatIsZero(x) == x.cls = "fin" /\ x.m = 0

ValueError == [ok |-> FALSE, val |-> NaN]

\* float() of an unsigned text: digits with at most one point and at least
\* one digit, or inf / infinity / nan in any case
ParseUnsigned(t) ==
    LET low == Lower(t)
        dots == {i \in 1..Len(t) : t[i] = "."}
        p == IF dots = {} THEN Len(t) + 1 ELSE CHOOSE i \in dots : TRUE
        ip == SubSeq(t, 1, p - 1)
        fp == SubSeq(t, p + 1, Len(t))
    IN IF low = <<"n", "a", "n">> THEN [ok |-> TRUE, val |-> NaN]
       ELSE IF low \in {<<"i", "n", "f">>, <<"i", "n", "f", "i", "n", "i", "t", "y">>}
            THEN [ok |-> TRUE, val |-> Inf(1)]
       ELSE IF /\ Cardinality(dots) <= 1
               /\ Len(ip) + Len(fp) >= 1
               /\ \A i \in 1..Len(ip) : IsDecimalChar(ip[i])
               /\ \A i \in 1..Len(fp) : IsDecimalChar(fp[i])
            THEN [ok |-> TRUE,
                  val |-> Fin(DigitsValue(ip) * Pow10(Len(fp)) + DigitsValue(fp), Len(fp))]
       ELSE ValueError

\* float(text) of a stripped text: the value, or ValueError.  Exponents and
\* digit-group underscores are not in the texts the model sends.
ParseFloat(t) ==
    IF t # <<>> /\ t[1] \in {"+", "-"}
    THEN LET r == ParseUnsigned(Tail(t))
         IN IF ~r.ok \/ t[1] = "+" THEN r
            ELSE [ok |-> TRUE, val |-> [r.val EXCEPT !.m = 0 - @]]
    ELSE ParseUnsigned(t)

\* sqlite3 binds a float to a REAL column; it stores NaN as NULL
SqlReal(x) == IF x.cls = "nan" THEN None ELSE Some(x)

-----------------------------------------------------------------------------
(* The SQLite tables.  users maps a user_id (the primary key) to its row, *)
(* or to None; workouts is the rows of the table in insertion order.       *)

\* the row INSERT INTO users (user_id, first_name, last_name) creates: the
\* other columns take their DEFAULT, and plan and plan_date are NULL
NewRow(first_name, last_name) ==
    [first_name |-> first_name, last_name |-> last_name,
     goal |-> <<>>, experience |-> <<>>,
     weight |-> Some(Fin(0, 0)), height |-> Some(Fin(0, 0)), days |-> 0,
     plan |-> None, plan_date |-> None]

\* get_user(user_id): the row or None; user_id itself may be None
get_user(tbl, user_id) ==
    IF IsNone(user_id) THEN None ELSE tbl[Val(user_id)]

\* create_user fails (sqlite3.IntegrityError) when the primary key exists
create_user_raises(tbl, user_id) ==
    ~IsNone(user_id) /\ ~IsNone(tbl[Val(user_id)])

\* create_user(user_id, first_name, last_name); a NULL user_id is given a
\* fresh rowid by SQLite, which is no Telegram user's row
create_user(tbl, user_id, first_name, last_name) ==
    IF IsNone(user_id) \/ create_user_raises(tbl, user_id) THEN tbl
    ELSE [tbl EXCEPT ![Val(user_id)] = Some(NewRow(first_name, last_name))]

\* update_user_field(user_id, field, value): UPDATE ... WHERE user_id = ?
\* changes the rows that match, and it is no error when none does
update_user_field(tbl, user_id, field, value) ==
    IF IsNone(get_user(tbl, user_id)) THEN tbl
    ELSE [tbl EXCEPT ![Val(user_id)] = Some([Val(@) EXCEPT ![field] = value])]

\* save_plan(user_id, plan) at the time now
save_plan(tbl, user_id, plan, now) ==
    IF IsNone(get_user(tbl, user_id)) THEN tbl
    ELSE [tbl EXCEPT ![Val(user_id)] =
              Some([Val(@) EXCEPT !.plan = Some(plan), !.plan_date = Some(now)])]

\* the rows of a table that satisfy WHERE user_id = ?
RECURSIVE RowsOf(_, _)
RowsOf(w, user_id) ==
    IF w = <<>> THEN <<>>
    ELSE IF ~IsNone(user_id) /\ w[1].user_id = Val(user_id)
         THEN <<w[1]>> \o RowsOf(Tail(w), user_id)
         ELSE RowsOf(Tail(w), user_id)

\* the rows of a table that do not satisfy WHERE user_id = ?
RECURSIVE RowsNotOf(_, _)
RowsNotOf(w, user_id) ==
    IF w = <<>> THEN <<>>
    ELSE IF ~IsNone(user_id) /\ w[1].user_id = Val(user_id)
         THEN RowsNotOf(Tail(w), user_id)
         ELSE <<w[1]>> \o RowsNotOf(Tail(w), user_id)

\* ORDER BY date DESC: insert a date into a descending list
RECURSIVE InsertDesc(_, _)
InsertDesc(d, sorted) ==
    IF sorted = <<>> THEN <<d>>
    ELSE IF d >= sorted[1] THEN <<d>> \o sorted
    ELSE <<sorted[1]>> \o InsertDesc(d, Tail(sorted))

RECURSIVE SortDesc(_)
SortDesc(rows) ==
    IF rows = <<>> THEN <<>>
    ELSE InsertDesc(rows[1].date, SortDesc(Tail(rows)))

\* get_workouts(user_id): the user's dates, most recent first
get_workouts(w, user_id) == SortDesc(RowsOf(w, user_id))

\* add_workout keeping one row per user and date
add_workout_once_a_day(w, user_id, workout_date) ==
    IF IsNone(user_id) THEN w
    ELSE IF \E i \in 1..Len(w) : w[i] = [user_id |-> Val(user_id), date |-> workout_date]
         THEN w
    ELSE Append(w, [user_id |-> Val(user_id), date |-> workout_date])

\* add_workout(user_id, workout_date)
add_workout(w, user_id, workout_date) ==
    IF IsNone(user_id) THEN w
    ELSE Append(w, [user_id |-> Val(user_id), date |-> workout_date])

\* delete_user without its first DELETE
delete_user_keeps_workouts(w, user_id) == w

\* delete_user with a first DELETE that has no WHERE clause
delete_user_all_workouts(w, user_id) == <<>>

\* delete_user(user_id): the workouts table after the two DELETEs
delete_user_workouts(w, user_id) == RowsNotOf(w, user_id)

\* delete_user(user_id): the users table after the two DELETEs
delete_user(tbl, user_id) ==
    IF IsNone(user_id) THEN tbl ELSE [tbl EXCEPT ![Val(user_id)] = None]

\* compute_bmi classifying the rounded value
compute_bmi_of_rounded(weight, height) ==
    IF FloatLeZero(weight) \/ FloatLeZero(height) THEN None
    ELSE IF weight.cls = "inf" \/ height.cls = "inf"
         THEN Some([value |-> NaN, category |-> "obesity III"])
    ELSE LET num == weight.m * Pow10(4 + 2 * height.e)
             den == Pow10(weight.e) * height.m * height.m
             q == (10 * num) \div den
             r == (10 * num) % den
             tenths == IF 2 * r > den \/ (2 * r = den /\ q % 2 = 1) THEN q + 1 ELSE q
             category ==
                 IF tenths < 185 THEN "underweight"
                 ELSE IF tenths < 250 THEN "normal"
                 ELSE IF tenths < 300 THEN "overweight"
                 ELSE IF tenths < 350 THEN "obesity I"
                 ELSE IF tenths < 400 THEN "obesity II"
                 ELSE "obesity III"
         IN Some([value |-> Fin(tenths, 1), category |-> category])

\* compute_bmi(weight, height): None, or the value rounded to one decimal
\* and its category.  The quotient is taken exactly.
compute_bmi(weight, height) ==
    IF FloatLeZero(weight) \/ FloatLeZero(height) THEN None
    ELSE IF weight.cls = "inf" /\ height.cls = "inf"
         THEN Some([value |-> NaN, category |-> "obesity III"])
    ELSE IF weight.cls = "inf"
         THEN Some([value |-> Inf(1), category |-> "obesity III"])
    ELSE IF height.cls = "inf"
         THEN Some([value |-> Fin(0, 0), category |-> "underweight"])
    ELSE LET num == weight.m * Pow10(4 + 2 * height.e)
             den == Pow10(weight.e) * height.m * height.m
             q == (10 * num) \div den
             r == (10 * num) % den
             tenths == IF 2 * r > den \/ (2 * r = den /\ q % 2 = 1) THEN q + 1 ELSE q
             category ==
                 IF 10 * num < 185 * den THEN "underweight"
                 ELSE IF num < 25 * den THEN "normal"
                 ELSE IF num < 30 * den THEN "overweight"
                 ELSE IF num < 35 * den THEN "obesity I"
                 ELSE IF num < 40 * den THEN "obesity II"
                 ELSE "obesity III"
         IN Some([value |-> Fin(tenths, 1), category |-> category])

-----------------------------------------------------------------------------
(* Messages: what reply_text sends.  msg names the message, text is the     *)
(* text it embeds, nums the integers and val the floats.                    *)

Msg(m) == [msg |-> m, text |-> <<>>, nums |-> <<>>, val |-> <<>>]
MsgText(m, t) == [msg |-> m, text |-> t, nums |-> <<>>, val |-> <<>>]
MsgNums(m, n) == [msg |-> m, text |-> <<>>, nums |-> n, val |-> <<>>]
MsgVal(m, t, v) == [msg |-> m, text |-> t, nums |-> <<>>, val |-> <<v>>]

\* whether a message named m is among msgs
Sent(msgs, m) == \E i \in 1..Len(msgs) : msgs[i].msg = m

\* the number of dates d of a descending list with today - d <= days
RECURSIVE CountUpTo(_, _, _)
CountUpTo(dates, now, days) ==
    IF dates = <<>> THEN 0
    ELSE (IF now - dates[1] <= days THEN 1 ELSE 0) + CountUpTo(Tail(dates), now, days)

\* the number of dates d of a descending list with today - d < days
RECURSIVE CountWithin(_, _, _)
CountWithin(dates, now, days) ==
    IF dates = <<>> THEN 0
    ELSE (IF now - dates[1] < days THEN 1 ELSE 0) + CountWithin(Tail(dates), now, days)

\* workout_stats(user_id) on the day now
workout_stats(w, user_id, now) ==
    LET dates == get_workouts(w, user_id)
    IN IF dates = <<>> THEN Msg("no_workouts")
       ELSE MsgNums("stats", <<Len(dates), CountWithin(dates, now, 7),
                               CountWithin(dates, now, 30)>>)

-----------------------------------------------------------------------------
(* Handlers.  A handler's outcome is the tables and the user's user_data    *)
(* as it leaves them, the messages it sent, whether it raised, the state it *)
(* returned, and whether it is suspended in the generation-service call,    *)
(* with the request the call sent.                                          *)

Outcome(tbl, w, ud, msgs, raised, ret) ==
    [users |-> tbl, workouts |-> w, ud |-> ud, replies |-> msgs,
     raised |-> raised, ret |-> ret, call |-> FALSE, request |-> None]

EmptyUserData == [user_id |-> None, register_user_id |-> None]

\* show_menu: the messages sent and whether it raised.  Comparing a NULL
\* weight or height with 0 raises TypeError.
show_menu(tbl, ud) ==
    LET user == get_user(tbl, ud.user_id)
    IN IF IsNone(ud.user_id) THEN [replies |-> <<Msg("no_user_id")>>, raised |-> FALSE]
       ELSE IF IsNone(user) THEN [replies |-> <<Msg("user_not_found")>>, raised |-> FALSE]
       ELSE IF IsNone(Val(user).weight) \/ IsNone(Val(user).height)
            THEN [replies |-> <<>>, raised |-> TRUE]
       ELSE [replies |-> <<Msg("menu")>>, raised |-> FALSE]

\* a handler's last two statements: await show_menu(...); return ret
ThenMenu(tbl, w, ud, msgs, ret) ==
    LET sm == show_menu(tbl, ud)
    IN Outcome(tbl, w, ud, msgs \o sm.replies, sm.raised, ret)

\* start, for an update of user u
start(u) ==
    LET user == get_user(users, Some(u))
    IN IF ~IsNone(user)
       THEN ThenMenu(users, workouts, [user_data[u] EXCEPT !.user_id = Some(u)],
                     <<MsgText("welcome_back", Val(user).first_name)>>, MAIN_MENU)
       ELSE Outcome(users, workouts, [user_data[u] EXCEPT !.register_user_id = Some(u)],
                    <<Msg("welcome")>>, FALSE, REGISTRATION)

\* handle_registration taking the second token alone as the last name
handle_registration_second_token(u, text) ==
    LET user_id == user_data[u].register_user_id
        parts == Split(Strip(text))
    IN IF Len(parts) < 2
       THEN Outcome(users, workouts, user_data[u], <<Msg("registration_reprompt")>>,
                    FALSE, REGISTRATION)
       ELSE IF create_user_raises(users, user_id)
       THEN Outcome(users, workouts, user_data[u], <<>>, TRUE, REGISTRATION)
       ELSE ThenMenu(create_user(users, user_id, parts[1], parts[2]), workouts,
                     [user_data[u] EXCEPT !.user_id = user_id],
                     <<MsgText("profile_created", parts[1])>>, MAIN_MENU)

\* handle_registration
handle_registration(u, text) ==
    LET user_id == user_data[u].register_user_id
        parts == Split(Strip(text))
    IN IF Len(parts) < 2
       THEN Outcome(users, workouts, user_data[u], <<Msg("registration_reprompt")>>,
                    FALSE, REGISTRATION)
       ELSE IF create_user_raises(users, user_id)
       THEN Outcome(users, workouts, user_data[u], <<>>, TRUE, REGISTRATION)
       ELSE ThenMenu(create_user(users, user_id, parts[1], Join(Tail(parts))), workouts,
                     [user_data[u] EXCEPT !.user_id = user_id],
                     <<MsgText("profile_created", parts[1])>>, MAIN_MENU)

\* edit_height
edit_height(u, text) ==
    LET user_id == user_data[u].user_id
        t == Replace(Strip(text), ",", ".")
        parsed == ParseFloat(t)
    IN IF ~parsed.ok \/ FloatLeZero(parsed.val)
       THEN Outcome(users, workouts, user_data[u], <<Msg("height_reprompt")>>,
                    FALSE, EDIT_HEIGHT)
       ELSE ThenMenu(update_user_field(users, user_id, "height", SqlReal(parsed.val)),
                     workouts, user_data[u],
                     <<MsgVal("height_updated", <<>>, parsed.val)>>, MAIN_MENU)

\* edit_weight
edit_weight(u, text) ==
    LET user_id == user_data[u].user_id
        t == Replace(Strip(text), ",", ".")
        parsed == ParseFloat(t)
    IN IF ~parsed.ok \/ FloatLeZero(parsed.val)
       THEN Outcome(users, workouts, user_data[u], <<Msg("weight_reprompt")>>,
                    FALSE, EDIT_WEIGHT)
       ELSE ThenMenu(update_user_field(users, user_id, "weight", SqlReal(parsed.val)),
                     workouts, user_data[u],
                     <<MsgVal("weight_updated", <<>>, parsed.val)>>, MAIN_MENU)

\* edit_days with the write moved before the range check
edit_days_write_first(u, text) ==
    LET user_id == user_data[u].user_id
        t == Strip(text)
        parsed == ParseInt(t)
        written == update_user_field(users, user_id, "days", parsed.val)
    IN IF ~IsDigit(t)
       THEN Outcome(users, workouts, user_data[u], <<Msg("days_not_a_number")>>,
                    FALSE, EDIT_DAYS)
       ELSE IF ~parsed.ok
       THEN Outcome(users, workouts, user_data[u], <<>>, TRUE, EDIT_DAYS)
       ELSE IF ~(1 <= parsed.val /\ parsed.val <= 7)
       THEN Outcome(written, workouts, user_data[u], <<Msg("days_out_of_range")>>,
                    FALSE, EDIT_DAYS)
       ELSE ThenMenu(written, workouts, user_data[u],
                     <<MsgNums("days_updated", <<parsed.val>>)>>, MAIN_MENU)

\* edit_days; int() raises ValueError, which nothing catches, on a text
\* isdigit() accepts and int() does not
edit_days(u, text) ==
    LET user_id == user_data[u].user_id
        t == Strip(text)
        parsed == ParseInt(t)
    IN IF ~IsDigit(t)
       THEN Outcome(users, workouts, user_data[u], <<Msg("days_not_a_number")>>,
                    FALSE, EDIT_DAYS)
       ELSE IF ~parsed.ok
       THEN Outcome(users, workouts, user_data[u], <<>>, TRUE, EDIT_DAYS)
       ELSE IF ~(1 <= parsed.val /\ parsed.val <= 7)
       THEN Outcome(users, workouts, user_data[u], <<Msg("days_out_of_range")>>,
                    FALSE, EDIT_DAYS)
       ELSE ThenMenu(update_user_field(users, user_id, "days", parsed.val),
                     workouts, user_data[u],
                     <<MsgNums("days_updated", <<parsed.val>>)>>, MAIN_MENU)

\* edit_experience storing the text in lower case
edit_experience_lower(u, text) ==
    LET user_id == user_data[u].user_id
        experience_value == Lower(Strip(text))
    IN ThenMenu(update_user_field(users, user_id, "experience", experience_value),
                workouts, user_data[u],
                <<MsgText("experience_updated", experience_value)>>, MAIN_MENU)

\* edit_experience
edit_experience(u, text) ==
    LET user_id == user_data[u].user_id
        experience_value == Strip(text)
    IN ThenMenu(update_user_field(users, user_id, "experience", experience_value),
                workouts, user_data[u],
                <<MsgText("experience_updated", experience_value)>>, MAIN_MENU)

\* edit_goal
edit_goal(u, text) ==
    LET user_id == user_data[u].user_id
        goal_value == Strip(text)
    IN ThenMenu(update_user_field(users, user_id, "goal", goal_value),
                workouts, user_data[u],
                <<MsgText("goal_updated", goal_value)>>, MAIN_MENU)

\* edit_name
edit_name(u, text) ==
    LET user_id == user_data[u].user_id
        parts == Split(Strip(text))
        first_name == parts[1]
        last_name == Join(Tail(parts))
    IN IF Len(parts) < 2
       THEN Outcome(users, workouts, user_data[u], <<Msg("name_reprompt")>>,
                    FALSE, EDIT_NAME)
       ELSE ThenMenu(update_user_field(
                         update_user_field(users, user_id, "first_name", first_name),
                         user_id, "last_name", last_name),
                     workouts, user_data[u],
                     <<MsgText("name_updated", first_name \o <<" ">> \o last_name)>>,
                     MAIN_MENU)

\* stats_handler
stats_handler(u) ==
    ThenMenu(users, workouts, user_data[u],
             <<workout_stats(workouts, user_data[u].user_id, today)>>, MAIN_MENU)

\* a handler that reads user.get(...) of a user that get_user did not find
\* raises AttributeError before it sends anything
NoUserRaises(u, ret) == Outcome(users, workouts, user_data[u], <<>>, TRUE, ret)

\* bmi_handler; a NULL weight or height reads as 0
bmi_handler(u) ==
    LET user == get_user(users, user_data[u].user_id)
        weight == IF IsNone(Val(user).weight) THEN Fin(0, 0) ELSE Val(Val(user).weight)
        height == IF IsNone(Val(user).height) THEN Fin(0, 0) ELSE Val(Val(user).height)
        bmi_result == compute_bmi(weight, height)
    IN IF IsNone(user) THEN NoUserRaises(u, MAIN_MENU)
       ELSE ThenMenu(users, workouts, user_data[u],
                     IF IsNone(bmi_result) THEN <<Msg("bmi_fill_weight_and_height")>>
                     ELSE <<MsgVal("bmi", <<Val(bmi_result).category>>,
                                   Val(bmi_result).value)>>,
                     MAIN_MENU)

\* the acceptance set of handle_confirm_delete
Affirmative == {<<"#d", "#a">>, <<"#d">>, <<"y", "e", "s">>, <<"y">>}

\* the membership test without .strip().lower()
IsAffirmativeVerbatim(text) == text \in Affirmative

\* response in {...} of handle_confirm_delete
IsAffirmative(text) == Lower(Strip(text)) \in Affirmative

\* handle_confirm_delete returning to the menu after the deletion
handle_confirm_delete_to_menu(u, text) ==
    LET user_id == user_data[u].user_id
    IN IF IsAffirmative(text)
       THEN Outcome(delete_user(users, user_id), delete_user_workouts(workouts, user_id),
                    EmptyUserData, <<Msg("profile_deleted")>>, FALSE, MAIN_MENU)
       ELSE ThenMenu(users, workouts, user_data[u], <<Msg("deletion_cancelled")>>,
                     MAIN_MENU)

\* handle_confirm_delete
handle_confirm_delete(u, text) ==
    LET user_id == user_data[u].user_id
    IN IF IsAffirmative(text)
       THEN Outcome(delete_user(users, user_id), delete_user_workouts(workouts, user_id),
                    EmptyUserData, <<Msg("profile_deleted")>>, FALSE, END)
       ELSE ThenMenu(users, workouts, user_data[u], <<Msg("deletion_cancelled")>>,
                     MAIN_MENU)

\* the completeness check without the days field
IncompleteIgnoringDays(user) ==
    \/ user.goal = <<>>
    \/ user.experience = <<>>
    \/ IsNone(user.weight) \/ FloatIsZero(Val(user.weight))
    \/ IsNone(user.height) \/ FloatIsZero(Val(user.height))

\* not user.get(f) or (isinstance(user[f], (int, float)) and user[f] == 0),
\* for f in required_fields, of show_plan_handler and generate_plan_handler
Incomplete(user) ==
    \/ user.goal = <<>>
    \/ user.experience = <<>>
    \/ IsNone(user.weight) \/ FloatIsZero(Val(user.weight))
    \/ IsNone(user.height) \/ FloatIsZero(Val(user.height))
    \/ user.days = 0

\* not plan, of a plan column: NULL or the empty text
NoPlan(user) == IsNone(user.plan) \/ Val(user.plan) = <<>>

\* show_plan_handler looking for the plan before the completeness check
show_plan_handler_plan_first(user) ==
    IF NoPlan(user) THEN <<Msg("no_plan_yet")>>
    ELSE IF Incomplete(user) THEN <<Msg("complete_profile_to_view")>>
    ELSE <<MsgText("plan", Val(user.plan))>>

\* show_plan_handler: the messages it sends
show_plan_handler(user) ==
    IF Incomplete(user) THEN <<Msg("complete_profile_to_view")>>
    ELSE IF NoPlan(user) THEN <<Msg("no_plan_yet")>>
    ELSE <<MsgText("plan", Val(user.plan))>>

\* past_workouts_handler listing the last ten of the dates, dates[-10:]
past_workouts_handler_oldest(w, user_id) ==
    LET dates == get_workouts(w, user_id)
    IN IF dates = <<>> THEN <<Msg("no_workouts")>>
       ELSE <<MsgNums("history",
                      SubSeq(dates, IF Len(dates) < 10 THEN 1 ELSE Len(dates) - 9, Len(dates)))>>

\* past_workouts_handler: the messages it sends
past_workouts_handler(w, user_id) ==
    LET dates == get_workouts(w, user_id)
    IN IF dates = <<>> THEN <<Msg("no_workouts")>>
       ELSE <<MsgNums("history", SubSeq(dates, 1, IF Len(dates) < 10 THEN Len(dates) ELSE 10))>>

\* perform_workout_handler, on the day now
perform_workout_handler(u, now) ==
    LET user_id == user_data[u].user_id
        user == get_user(users, user_id)
    IN IF IsNone(user) THEN NoUserRaises(u, MAIN_MENU)
       ELSE IF NoPlan(Val(user))
       THEN Outcome(users, workouts, user_data[u], <<Msg("generate_plan_first")>>,
                    FALSE, MAIN_MENU)
       ELSE Outcome(users, add_workout(workouts, user_id, now), user_data[u],
                    <<MsgNums("workout_marked", <<now>>)>>, FALSE, MAIN_MENU)

\* the keys of experience_map: the Russian for beginner, intermediate and
\* advanced, in lower case
ExperienceBeginner ==
    <<"#n", "#a", "#ch", "#i", "#n", "#a", "#yu", "#shch", "#i", "#j">>
ExperienceIntermediate ==
    <<"#s", "#r", "#e", "#d", "#n", "#i", "#j">>
ExperienceAdvanced ==
    <<"#p", "#r", "#o", "#d", "#v", "#i", "#n", "#u", "#t", "#y", "#j">>

\* experience_map.get(profile.experience.lower(), 12)
sets_per_week(experience) ==
    LET level == Lower(experience)
    IN IF level = ExperienceBeginner THEN 10
       ELSE IF level = ExperienceIntermediate THEN 15
       ELSE IF level = ExperienceAdvanced THEN 20
       ELSE 12

\* round(n / d) for n >= 0 and d > 0: Python rounds a half to the even
\* neighbour.  The quotients of the four weekly targets by 1..7 that are
\* halves (10/4, 15/2, 15/6) are exact as floats.
Round(n, d) ==
    LET q == n \div d
        r == n % d
    IN IF 2 * r > d \/ (2 * r = d /\ q % 2 = 1) THEN q + 1 ELSE q

\* max(1, round(sets_per_week / profile.days))
sets_per_session(experience, days) ==
    LET rounded == Round(sets_per_week(experience), days)
    IN IF rounded > 1 THEN rounded ELSE 1

\* generate_workout_plan up to requests.post: the numbers of user_prompt
generate_workout_plan(profile) ==
    [days |-> profile.days,
     sets_per_week |-> sets_per_week(profile.experience),
     sets_per_session |-> sets_per_session(profile.experience, profile.days)]

\* generate_plan_handler up to the request it sends: it replies that the
\* profile is incomplete, or is suspended in generate_workout_plan
generate_plan_handler(u) ==
    LET user == get_user(users, user_data[u].user_id)
    IN IF IsNone(user) THEN NoUserRaises(u, MAIN_MENU)
       ELSE IF Incomplete(Val(user))
       THEN Outcome(users, workouts, user_data[u],
                    <<Msg("complete_profile_to_generate")>>, FALSE, MAIN_MENU)
       ELSE [Outcome(users, workouts, user_data[u], <<>>, FALSE, MAIN_MENU)
                EXCEPT !.call = TRUE,
                       !.request = Some(generate_workout_plan(Val(user)))]

\* generate_plan_handler saving whatever came back, the failure included
generate_plan_return_saves_failure(u, result, now) ==
    IF result.ok
    THEN Outcome(save_plan(users, user_data[u].user_id, result.text, now), workouts,
                 user_data[u], <<MsgText("plan_generated", result.text)>>, FALSE, MAIN_MENU)
    ELSE Outcome(save_plan(users, user_data[u].user_id, <<>>, now), workouts,
                 user_data[u], <<MsgText("generation_error", result.text)>>, FALSE,
                 MAIN_MENU)

\* generate_plan_handler from the return of generate_workout_plan: result.ok
\* with the plan text, or an exception with its reason
generate_plan_return(u, result, now) ==
    IF result.ok
    THEN Outcome(save_plan(users, user_data[u].user_id, result.text, now), workouts,
                 user_data[u], <<MsgText("plan_generated", result.text)>>, FALSE, MAIN_MENU)
    ELSE Outcome(users, workouts, user_data[u],
                 <<MsgText("generation_error", result.text)>>, FALSE, MAIN_MENU)

\* cancel as the menu-returning variant: back to the menu when a profile exists
cancel_to_menu(u) ==
    Outcome(users, workouts, user_data[u], <<Msg("cancelled")>>, FALSE,
            IF IsNone(users[u]) THEN END ELSE MAIN_MENU)

\* cancel
cancel(u) == Outcome(users, workouts, user_data[u], <<Msg("cancelled")>>, FALSE, END)

-----------------------------------------------------------------------------
(* The menu: the prefixes handle_menu looks for, transliterated *)

\* line 399
LabelEditHeight ==
    <<"#r", "#e", "#d", "#a", "#k", "#t", "#i", "#r", "#o", "#v", "#a", "#t",
      "#q", " ", "#r", "#o", "#s", "#t">>

\* the weight label cut after its first word
LabelEditAnything ==
    <<"#r", "#e", "#d", "#a", "#k", "#t", "#i", "#r", "#o", "#v", "#a", "#t", "#q">>

\* line 402
LabelEditWeight ==
    <<"#r", "#e", "#d", "#a", "#k", "#t", "#i", "#r", "#o", "#v", "#a", "#t",
      "#q", " ", "#v", "#e", "#s">>

\* line 405
LabelEditDays ==
    <<"#r", "#e", "#d", "#a", "#k", "#t", "#i", "#r", "#o", "#v", "#a", "#t",
      "#q", " ", "#k", "#o", "#l", "#i", "#ch", "#e", "#s", "#t", "#v", "#o",
      " ", "#d", "#n", "#e", "#j">>

\* line 408
LabelEditExperience ==
    <<"#r", "#e", "#d", "#a", "#k", "#t", "#i", "#r", "#o", "#v", "#a", "#t",
      "#q", " ", "#u", "#r", "#o", "#v", "#e", "#n", "#q", " ", "#p", "#o",
      "#d", "#g", "#o", "#t", "#o", "#v", "#k", "#i">>

\* line 416
LabelEditGoal ==
    <<"#r", "#e", "#d", "#a", "#k", "#t", "#i", "#r", "#o", "#v", "#a", "#t",
      "#q", " ", "#c", "#e", "#l", "#q">>

\* line 422
LabelEditName ==
    <<"#i", "#z", "#m", "#e", "#n", "#i", "#t", "#q", " ", "#i", "#m", "#ya">>

\* line 428
LabelShowPlan ==
    <<"#p", "#o", "#k", "#a", "#z", "#a", "#t", "#q", " ", "#p", "#l", "#a",
      "#n">>

\* line 431
LabelGeneratePlan ==
    <<"#s", "#g", "#e", "#n", "#e", "#r", "#i", "#r", "#o", "#v", "#a", "#t",
      "#q", " ", "#n", "#o", "#v", "#y", "#j", " ", "#p", "#l", "#a", "#n">>

\* line 434
LabelPastWorkouts ==
    <<"#p", "#r", "#o", "#sh", "#l", "#y", "#e", " ", "#t", "#r", "#e", "#n",
      "#i", "#r", "#o", "#v", "#k", "#i">>

\* line 437
LabelPerformWorkout ==
    <<"#v", "#y", "#p", "#o", "#l", "#n", "#i", "#t", "#q", " ", "#t", "#r",
      "#e", "#n", "#i", "#r", "#o", "#v", "#k", "#u">>

\* line 440
LabelStats ==
    <<"#s", "#t", "#a", "#t", "#i", "#s", "#t", "#i", "#k", "#a">>

\* line 443
LabelBmi ==
    <<"#p", "#o", "#k", "#a", "#z", "#a", "#t", "#q", " ", "#i", "#m", "#t">>

\* line 446
LabelDelete ==
    <<"#u", "#d", "#a", "#l", "#i", "#t", "#q", " ", "#p", "#r", "#o", "#f",
      "#i", "#l", "#q">>

\* handle_menu
handle_menu(u, text) ==
    LET t == Lower(Strip(text))
        user == get_user(users, user_data[u].user_id)
        Ask(m, ret) == Outcome(users, workouts, user_data[u], <<Msg(m)>>, FALSE, ret)
    IN IF StartsWith(t, LabelEditHeight) THEN Ask("ask_height", EDIT_HEIGHT)
       ELSE IF StartsWith(t, LabelEditWeight) THEN Ask("ask_weight", EDIT_WEIGHT)
       ELSE IF StartsWith(t, LabelEditDays) THEN Ask("ask_days", EDIT_DAYS)
       ELSE IF StartsWith(t, LabelEditExperience) THEN Ask("ask_experience", EDIT_EXPERIENCE)
       ELSE IF StartsWith(t, LabelEditGoal) THEN Ask("ask_goal", EDIT_GOAL)
       ELSE IF StartsWith(t, LabelEditName) THEN Ask("ask_name", EDIT_NAME)
       ELSE IF StartsWith(t, LabelShowPlan)
            THEN IF IsNone(user) THEN NoUserRaises(u, MAIN_MENU)
                 ELSE Outcome(users, workouts, user_data[u],
                              show_plan_handler(Val(user)), FALSE, MAIN_MENU)
       ELSE IF StartsWith(t, LabelGeneratePlan) THEN generate_plan_handler(u)
       ELSE IF StartsWith(t, LabelPastWorkouts)
            THEN Outcome(users, workouts, user_data[u],
                         past_workouts_handler(workouts, user_data[u].user_id),
                         FALSE, MAIN_MENU)
       ELSE IF StartsWith(t, LabelPerformWorkout) THEN perform_workout_handler(u, today)
       ELSE IF StartsWith(t, LabelStats) THEN stats_handler(u)
       ELSE IF StartsWith(t, LabelBmi) THEN bmi_handler(u)
       ELSE IF StartsWith(t, LabelDelete) THEN Ask("confirm_delete", CONFIRM_DELETE)
       ELSE Ask("unknown_command", MAIN_MENU)

-----------------------------------------------------------------------------
(* The texts the model sends in each state, and the generation service's    *)
(* answers                                                                  *)

\* "Ann Lee", "  Bob  van Dam ", "Solo", "  "
NameTexts ==
    {<<"A", "n", "n", " ", "L", "e", "e">>,
     <<" ", " ", "B", "o", "b", " ", " ", "v", "a", "n", " ", "D", "a", "m", " ">>,
     <<"S", "o", "l", "o">>, <<" ", " ">>}

\* "180.5", " 180,5 ", "0", "abc", "NaN"
HeightTexts ==
    {<<"1", "8", "0", ".", "5">>, <<" ", "1", "8", "0", ",", "5", " ">>,
     <<"0">>, <<"a", "b", "c">>, <<"N", "a", "N">>}

\* "75", "-5", "7.5.1"
WeightTexts ==
    {<<"7", "5">>, <<"-", "5">>, <<"7", ".", "5", ".", "1">>}

\* " 4 ", "0", "8", "-1", and a superscript two
DaysTexts ==
    {<<" ", "4", " ">>, <<"0">>, <<"8">>, <<"-", "1">>, <<"^2">>}

\* " Intermediate ", " "
ExperienceTexts ==
    {<<" ", "I", "n", "t", "e", "r", "m", "e", "d", "i", "a", "t", "e", " ">>,
     <<" ">>}

\* "hypertrophy", "  "
GoalTexts ==
    {<<"h", "y", "p", "e", "r", "t", "r", "o", "p", "h", "y">>,
     <<" ", " ">>}

\* the Cyrillic " Da " and "net", and the Latin "YES" and "da"
ConfirmTexts ==
    {<<" ", "#D", "#a", " ">>, <<"#n", "#e", "#t">>, <<"Y", "E", "S">>, <<"d", "a">>}

\* what the thirteen menu buttons send
ButtonTexts ==
    {Cap(LabelEditHeight), Cap(LabelEditWeight), Cap(LabelEditDays),
     Cap(LabelEditExperience), Cap(LabelEditGoal), Cap(LabelEditName),
     Cap(LabelShowPlan), Cap(LabelGeneratePlan), Cap(LabelPastWorkouts),
     Cap(LabelPerformWorkout), Cap(LabelStats),
     SubSeq(Cap(LabelBmi), 1, 9) \o <<"#I", "#M", "#T">>, Cap(LabelDelete)}

\* the buttons, a button's text typed with spaces around it and a suffix,
\* "hello", and the first word of the 'show plan' button alone
MenuTexts ==
    ButtonTexts \cup {<<" ">> \o LabelShowPlan \o <<" ", "2", " ">>,
                      <<"h", "e", "l", "l", "o">>,
                      SubSeq(Cap(LabelShowPlan), 1, 8)}

\* the plans the generation service may return: the empty text, "A" and "B"
PlanTexts == {<<>>, <<"A">>, <<"B">>}

\* the reasons it may fail with: "timeout"
FailureReasons == {<<"t", "i", "m", "e", "o", "u", "t">>}

GenerationResults ==
    {[ok |-> TRUE, text |-> p] : p \in PlanTexts}
        \cup {[ok |-> FALSE, text |-> r] : r \in FailureReasons}

-----------------------------------------------------------------------------
(* The state machine *)

Event(user, kind, text, from, raised) ==
    [user |-> user, kind |-> kind, text |-> text, from |-> from, raised |-> raised]

\* init_db() on a fresh database, and an Application that has seen no update
Init ==
    /\ users = [u \in Users |-> None]
    /\ workouts = <<>>
    /\ conv = [u \in Users |-> END]
    /\ user_data = [u \in Users |-> EmptyUserData]
    /\ today = 0
    /\ inflight = None
    /\ request = None
    /\ event = Event(None, "init", <<>>, END, FALSE)
    /\ replies = <<>>

\* The Application runs a handler for an update of user u and takes its
\* outcome o: a handler that raised, or that is suspended in the
\* generation-service call, leaves the conversation state as it was.
Deliver(u, kind, text, o) ==
    /\ users' = o.users
    /\ workouts' = o.workouts
    /\ user_data' = [user_data EXCEPT ![u] = o.ud]
    /\ conv' = IF o.raised \/ o.call THEN conv ELSE [conv EXCEPT ![u] = o.ret]
    /\ inflight' = IF o.call THEN Some(u) ELSE None
    /\ request' = o.request
    /\ replies' = o.replies
    /\ event' = Event(Some(u), kind, text, conv[u], o.raised)
    /\ UNCHANGED today

\* The Application handles one update at a time, and requests.post blocks
\* the event loop: no update is handled while a call is in flight.
Idle == inflight = None

\* /start is the conversation's entry point: it is taken when the user has
\* no conversation
Start(u) ==
    /\ Idle
    /\ conv[u] = END
    /\ Deliver(u, "start", <<>>, start(u))

\* /help runs start outside the conversation: its return value is dropped
Help(u) ==
    /\ Idle
    /\ Deliver(u, "help", <<>>, [start(u) EXCEPT !.ret = conv[u]])

\* /cancel is the fallback of every state
Cancel(u) ==
    /\ Idle
    /\ conv[u] # END
    /\ Deliver(u, "cancel", <<>>, cancel(u))

Registration(u, texts) ==
    /\ Idle
    /\ conv[u] = REGISTRATION
    /\ \E t \in texts : Deliver(u, "text", t, handle_registration(u, t))

Menu(u, texts) ==
    /\ Idle
    /\ conv[u] = MAIN_MENU
    /\ \E t \in texts :
          /\ \/ handle_menu(u, t).workouts = workouts
             \/ Len(handle_menu(u, t).workouts) <= MaxWorkouts
          /\ Deliver(u, "text", t, handle_menu(u, t))

EditHeight(u, texts) ==
    /\ Idle
    /\ conv[u] = EDIT_HEIGHT
    /\ \E t \in texts : Deliver(u, "text", t, edit_height(u, t))

EditWeight(u, texts) ==
    /\ Idle
    /\ conv[u] = EDIT_WEIGHT
    /\ \E t \in texts : Deliver(u, "text", t, edit_weight(u, t))

EditDays(u, texts) ==
    /\ Idle
    /\ conv[u] = EDIT_DAYS
    /\ \E t \in texts : Deliver(u, "text", t, edit_days(u, t))

EditExperience(u, texts) ==
    /\ Idle
    /\ conv[u] = EDIT_EXPERIENCE
    /\ \E t \in texts : Deliver(u, "text", t, edit_experience(u, t))

EditGoal(u, texts) ==
    /\ Idle
    /\ conv[u] = EDIT_GOAL
    /\ \E t \in texts : Deliver(u, "text", t, edit_goal(u, t))

EditName(u, texts) ==
    /\ Idle
    /\ conv[u] = EDIT_NAME
    /\ \E t \in texts : Deliver(u, "text", t, edit_name(u, t))

ConfirmDelete(u, texts) ==
    /\ Idle
    /\ conv[u] = CONFIRM_DELETE
    /\ \E t \in texts : Deliver(u, "text", t, handle_confirm_delete(u, t))

\* generate_workout_plan returns or raises, and generate_plan_handler and
\* handle_menu run to their end
GenerateReturn(u) ==
    /\ inflight = Some(u)
    /\ \E result \in GenerationResults :
          Deliver(u, IF result.ok THEN "generated" ELSE "generation_failed", result.text,
                  generate_plan_return(u, result, today))

\* midnight passes
Tick ==
    /\ today < MaxDay
    /\ today' = today + 1
    /\ event' = Event(None, "tick", <<>>, END, FALSE)
    /\ replies' = <<>>
    /\ UNCHANGED <<users, workouts, conv, user_data, inflight, request>>

\* the updates of one user
UserStep(u) ==
    \/ Start(u)
    \/ Help(u)
    \/ Cancel(u)
    \/ Registration(u, NameTexts)
    \/ Menu(u, MenuTexts)
    \/ EditHeight(u, HeightTexts)
    \/ EditWeight(u, WeightTexts)
    \/ EditDays(u, DaysTexts)
    \/ EditExperience(u, ExperienceTexts)
    \/ EditGoal(u, GoalTexts)
    \/ EditName(u, NameTexts)
    \/ ConfirmDelete(u, ConfirmTexts)
    \/ GenerateReturn(u)

Next == (\E u \in SoloUsers : UserStep(u)) \/ Tick

Spec == Init /\ [][Next]_vars

-----------------------------------------------------------------------------
(* Specifications that start from a menu: the users of us have registered,  *)
(* filled their profiles in and are in the main menu.                       *)

\* "Ann", "Lee", "hypertrophy", "Intermediate", 75 kg, 180.5 cm, 4 days
FilledRow ==
    [NewRow(<<"A", "n", "n">>, <<"L", "e", "e">>) EXCEPT
        !.goal = <<"h", "y", "p", "e", "r", "t", "r", "o", "p", "h", "y">>,
        !.experience = <<"I", "n", "t", "e", "r", "m", "e", "d", "i", "a", "t", "e">>,
        !.weight = Some(Fin(75, 0)),
        !.height = Some(Fin(1805, 1)),
        !.days = 4]

\* the users of us are in the menu with a row of rows each, the workouts
\* table is one of logs and the day one of days
InMenu(us, rows, logs, days) ==
    /\ users \in [Users -> rows \cup {None}]
    /\ \A u \in Users : IsNone(users[u]) <=> u \notin us
    /\ workouts \in logs
    /\ conv = [u \in Users |-> IF u \in us THEN MAIN_MENU ELSE END]
    /\ user_data = [u \in Users |->
                       IF u \in us THEN [user_id |-> Some(u), register_user_id |-> Some(u)]
                       ELSE EmptyUserData]
    /\ today \in days
    /\ inflight = None
    /\ request = None
    /\ event = Event(None, "init", <<>>, END, FALSE)
    /\ replies = <<>>

\* the three buttons of the experience keyboard, and "Intermediate"
PlanExperiences ==
    {Cap(ExperienceBeginner), Cap(ExperienceIntermediate), Cap(ExperienceAdvanced),
     <<"I", "n", "t", "e", "r", "m", "e", "d", "i", "a", "t", "e">>}

\* filled profiles of every experience and every number of days edit_days accepts
PlanRows ==
    {Some([FilledRow EXCEPT !.experience = e, !.days = d]) :
        e \in PlanExperiences, d \in 1..7}

PlanInit == InMenu(SoloUsers, PlanRows, {<<>>}, {0})

\* the buttons that generate the plan and show it
PlanMenuTexts == {Cap(LabelGeneratePlan), Cap(LabelShowPlan)}

PlanNext ==
    \E u \in SoloUsers :
        \/ Menu(u, PlanMenuTexts)
        \/ GenerateReturn(u)

\* plans are generated and shown from every such profile
PlanSpec == PlanInit /\ [][PlanNext]_vars

\* the ages in days, on the day the log is read, of the rows of the workouts
\* table in insertion order: the clock only advances, so the oldest is first
LogAges == <<31, 30, 29, 7, 6, 0, 0, 0, 0, 0, 0, 0>>

\* the day the log is read: the oldest row was added on day 0
LogDay == LogAges[1]

\* the workouts tables with these rows, each row of one of the users
Logs ==
    {[i \in 1..Len(LogAges) |-> [user_id |-> owner[i], date |-> LogDay - LogAges[i]]] :
        owner \in [1..Len(LogAges) -> Users]}

\* a filled profile with the plan "A" generated on day 0
LoggedRow == [FilledRow EXCEPT !.plan = Some(<<"A">>), !.plan_date = Some(0)]

LogInit == InMenu(Users, {Some(LoggedRow)}, Logs, {LogDay})

\* the buttons that show the statistics and the past workouts
LogMenuTexts == {Cap(LabelStats), Cap(LabelPastWorkouts)}

LogNext == \E u \in Users : Menu(u, LogMenuTexts)

\* both users read their statistics and history from every such log
LogSpec == LogInit /\ [][LogNext]_vars

\* weights in kg: 0 (unset), 50, 70, 73.9, 74, 100, 120, 140, 160
BmiWeights ==
    {Fin(0, 0), Fin(50, 0), Fin(70, 0), Fin(739, 1), Fin(74, 0), Fin(100, 0),
     Fin(120, 0), Fin(140, 0), Fin(160, 0)}

\* heights in cm: 0 (unset), 170, 175, 200
BmiHeights == {Fin(0, 0), Fin(170, 0), Fin(175, 0), Fin(200, 0)}

BmiRows ==
    {Some([FilledRow EXCEPT !.weight = Some(w), !.height = Some(h)]) :
        w \in BmiWeights, h \in BmiHeights}

BmiInit == InMenu(SoloUsers, BmiRows, {<<>>}, {0})

\* the BMI button as the keyboard sends it, and its label typed after a space
BmiMenuTexts == {SubSeq(Cap(LabelBmi), 1, 9) \o <<"#I", "#M", "#T">>, <<" ">> \o LabelBmi}

BmiNext == \E u \in SoloUsers : Menu(u, BmiMenuTexts)

\* the BMI is shown for every such weight and height
BmiSpec == BmiInit /\ [][BmiNext]_vars

DuoInit == InMenu(Users, {Some(FilledRow)}, {<<>>}, {0})

\* the buttons that generate the plan, show it and run a workout of it
DuoMenuTexts == {Cap(LabelGeneratePlan), Cap(LabelShowPlan), Cap(LabelPerformWorkout)}

DuoNext ==
    \E u \in Users :
        \/ Menu(u, DuoMenuTexts)
        \/ GenerateReturn(u)

\* two users generate, show and follow their plans
DuoSpec == DuoInit /\ [][DuoNext]_vars

\* The ConversationHandler keeps one conversation per chat and user, while
\* the users table and context.user_data are per user: the user confirms the
\* deletion in a conversation of another chat.  The conversation of this
\* chat keeps its state.
DeleteElsewhere(u) ==
    /\ Idle
    /\ ~IsNone(users[u])
    /\ Deliver(u, "deleted_elsewhere", <<"y">>,
               [handle_confirm_delete(u, <<"y">>) EXCEPT !.ret = conv[u]])

OrphanInit == InMenu(SoloUsers, {Some(LoggedRow)}, {<<>>}, {0})

OrphanNext ==
    \E u \in SoloUsers :
        \/ DeleteElsewhere(u)
        \/ Menu(u, MenuTexts)
        \/ EditHeight(u, HeightTexts)
        \/ EditWeight(u, WeightTexts)
        \/ EditDays(u, DaysTexts)
        \/ EditExperience(u, ExperienceTexts)
        \/ EditGoal(u, GoalTexts)
        \/ EditName(u, NameTexts)
        \/ ConfirmDelete(u, ConfirmTexts)
        \/ GenerateReturn(u)

\* a user with a profile and a plan uses the menu of one chat while the
\* profile may be deleted from another
OrphanSpec == OrphanInit /\ [][OrphanNext]_vars

\* one text for each state: "Ann Lee", "180.5", "75", " 4 ", " Intermediate ",
\* "hypertrophy", and the Cyrillic " Da " and "net"
PairNameTexts == {<<"A", "n", "n", " ", "L", "e", "e">>}
PairHeightTexts == {<<"1", "8", "0", ".", "5">>}
PairWeightTexts == {<<"7", "5">>}
PairDaysTexts == {<<" ", "4", " ">>}
PairExperienceTexts ==
    {<<" ", "I", "n", "t", "e", "r", "m", "e", "d", "i", "a", "t", "e", " ">>}
PairGoalTexts == {<<"h", "y", "p", "e", "r", "t", "r", "o", "p", "h", "y">>}
PairConfirmTexts == {<<" ", "#D", "#a", " ">>, <<"#n", "#e", "#t">>}

\* the buttons that change something: the six edits, 'generate plan',
\* 'perform workout' and 'delete profile'
PairMenuTexts ==
    {Cap(LabelEditHeight), Cap(LabelEditWeight), Cap(LabelEditDays),
     Cap(LabelEditExperience), Cap(LabelEditGoal), Cap(LabelEditName),
     Cap(LabelGeneratePlan), Cap(LabelPerformWorkout), Cap(LabelDelete)}

\* the buttons the second user presses
PairOtherMenuTexts == {Cap(LabelGeneratePlan), Cap(LabelPerformWorkout)}

\* the first user has not registered; the second is in the menu with a
\* filled profile and a plan
PairInit == InMenu({2}, {Some(LoggedRow)}, {<<>>}, {0})

\* the first user registers, edits every field, generates plans, marks
\* workouts, deletes the profile and cancels, while the second generates
\* plans, marks workouts, cancels and starts again
PairNext ==
    \/ \E u \in {1} :
          \/ Start(u)
          \/ Cancel(u)
          \/ Registration(u, PairNameTexts)
          \/ Menu(u, PairMenuTexts)
          \/ EditHeight(u, PairHeightTexts)
          \/ EditWeight(u, PairWeightTexts)
          \/ EditDays(u, PairDaysTexts)
          \/ EditExperience(u, PairExperienceTexts)
          \/ EditGoal(u, PairGoalTexts)
          \/ EditName(u, PairNameTexts)
          \/ ConfirmDelete(u, PairConfirmTexts)
          \/ GenerateReturn(u)
    \/ \E u \in {2} :
          \/ Start(u)
          \/ Cancel(u)
          \/ Menu(u, PairOtherMenuTexts)
          \/ GenerateReturn(u)

PairSpec == PairInit /\ [][PairNext]_vars

-----------------------------------------------------------------------------
(* Properties *)

\* the user of the last update
EventUser == Val(event.user)

\* the last update was a text handled in state s
TextIn(s) == event.kind = "text" /\ event.from = s

HasProfile(u) == ~IsNone(users[u])
Profile(u) == Val(users[u])

\* C1 as stated: after a cancel input the session state is Menu if a profile
\* exists for the identity, and otherwise the session has ended.
C1_CancelReturnsToMenu ==
    event.kind = "cancel" =>
        conv[EventUser] = IF HasProfile(EventUser) THEN MAIN_MENU ELSE END

\* C1 as amended: after a cancel input in any conversation state the session
\* has ended whether or not a profile exists; a start event enters
\* AwaitingRegistration when no profile exists, and it is a start event of an
\* identity with a profile that enters Menu.
C1_CancelEndsSession ==
    /\ event.kind = "cancel" =>
          /\ event.from \in States
          /\ conv[EventUser] = END
          /\ replies = <<Msg("cancelled")>>
    /\ event.kind = "start" =>
          /\ ~HasProfile(EventUser) => conv[EventUser] = REGISTRATION
          /\ HasProfile(EventUser) => conv[EventUser] \in {MAIN_MENU, END}
          /\ conv[EventUser] = MAIN_MENU => ~event.raised

\* a profile holder cancels an edit of the height
C1_Witness ==
    /\ event.kind = "cancel"
    /\ event.from = EDIT_HEIGHT
    /\ HasProfile(EventUser)
    /\ conv[EventUser] = END

RepromptMessages ==
    {"height_reprompt", "weight_reprompt", "days_not_a_number", "days_out_of_range",
     "name_reprompt"}

ValidatedEditStates == {EDIT_HEIGHT, EDIT_WEIGHT, EDIT_DAYS, EDIT_NAME}

\* C2: in EditingField(height | weight | days | name), an input the handler
\* rejects (it answers with its re-prompt) leaves both tables exactly as they
\* were and the session in the same EditingField state.
C2_InvalidEditChangesNothing ==
    [][(/\ event'.kind = "text"
        /\ event'.from \in ValidatedEditStates
        /\ \E m \in RepromptMessages : Sent(replies', m))
       => (/\ users' = users
           /\ workouts' = workouts
           /\ conv' = conv
           /\ conv'[Val(event'.user)] = event'.from)]_vars

\* 8 days is rejected while 4 days are stored
C2_Witness ==
    /\ TextIn(EDIT_DAYS)
    /\ event.text = <<"8">>
    /\ Sent(replies, "days_out_of_range")
    /\ conv[EventUser] = EDIT_DAYS
    /\ HasProfile(EventUser)
    /\ Profile(EventUser).days = 4

\* the row a registration creates: the two names, everything else unset
IsFreshRow(row, first, last) ==
    /\ row.first_name = first /\ row.last_name = last
    /\ row.goal = <<>> /\ row.experience = <<>>
    /\ row.weight = Some(Fin(0, 0)) /\ row.height = Some(Fin(0, 0))
    /\ row.days = 0
    /\ row.plan = None /\ row.plan_date = None

\* C3: in AwaitingRegistration a text of at least 2 whitespace-separated
\* tokens creates a profile whose first name is the first token and whose
\* last name is the other tokens joined by single spaces, all other fields
\* unset, and moves to Menu; a text of fewer tokens creates no profile and
\* stays.  EditingField(name) parses the same way and overwrites both names.
C3_NameParsing ==
    LET tokens == Split(event.text)
        u == EventUser
    IN /\ TextIn(REGISTRATION) =>
            IF Len(tokens) >= 2
            THEN /\ HasProfile(u)
                 /\ IsFreshRow(Profile(u), tokens[1], Join(Tail(tokens)))
                 /\ conv[u] = MAIN_MENU
            ELSE ~HasProfile(u) /\ conv[u] = REGISTRATION
       /\ (TextIn(EDIT_NAME) /\ Len(tokens) >= 2) =>
            /\ HasProfile(u)
            /\ Profile(u).first_name = tokens[1]
            /\ Profile(u).last_name = Join(Tail(tokens))
       /\ (event.kind = "text" /\ event.from \in {REGISTRATION, EDIT_NAME}
             /\ event.text = <<" ", " ", "B", "o", "b", " ", " ", "v", "a", "n", " ",
                               "D", "a", "m", " ">>) =>
            /\ Profile(u).first_name = <<"B", "o", "b">>
            /\ Profile(u).last_name = <<"v", "a", "n", " ", "D", "a", "m">>

\* "  Bob  van Dam " registers Bob, van Dam
C3_Witness ==
    /\ TextIn(REGISTRATION)
    /\ Len(Split(event.text)) = 3
    /\ HasProfile(EventUser)
    /\ Profile(EventUser).last_name = <<"v", "a", "n", " ", "D", "a", "m">>
    /\ conv[EventUser] = MAIN_MENU

\* C4: after an affirmative deletion confirmation the store holds no profile
\* and no completion record of the identity, the session has ended, and a
\* start event of an identity without a profile enters AwaitingRegistration.
C4_DeletionCascades ==
    /\ (TextIn(CONFIRM_DELETE)
          /\ (Sent(replies, "profile_deleted")
                \/ event.text \in {<<" ", "#D", "#a", " ">>, <<"Y", "E", "S">>})) =>
            /\ get_user(users, event.user) = None
            /\ get_workouts(workouts, event.user) = <<>>
            /\ \A i \in 1..Len(workouts) : workouts[i].user_id # EventUser
            /\ conv[EventUser] = END
            /\ user_data[EventUser] = EmptyUserData
    /\ (event.kind = "start" /\ ~HasProfile(EventUser)) =>
            conv[EventUser] = REGISTRATION /\ replies = <<Msg("welcome")>>

\* a profile was deleted on the second day
C4_Witness ==
    /\ TextIn(CONFIRM_DELETE)
    /\ Sent(replies, "profile_deleted")
    /\ ~HasProfile(EventUser)
    /\ conv[EventUser] = END
    /\ today = 1

\* a text as handle_confirm_delete compares it: trimmed, in lower case
Accepted(text) ==
    Lower(Strip(text)) \in {<<"#d", "#a">>, <<"#d">>, <<"y", "e", "s">>, <<"y">>}

\* C5: in ConfirmingDeletion the profile is deleted if and only if the input,
\* trimmed and compared case-insensitively, is in the acceptance set; any
\* other input leaves both tables unchanged and returns the session to Menu.
C5_DeleteIffAffirmative ==
    [][(event'.kind = "text" /\ event'.from = CONFIRM_DELETE) =>
         LET u == Val(event'.user)
         IN /\ ~IsNone(users[u])
            /\ IsNone(users'[u]) <=> Accepted(event'.text)
            /\ ~Accepted(event'.text) =>
                 /\ users' = users
                 /\ workouts' = workouts
                 /\ conv'[u] = MAIN_MENU]_vars

\* the Latin "da" is declined: the plan and a completion record are kept
C5_Witness ==
    /\ TextIn(CONFIRM_DELETE)
    /\ event.text = <<"d", "a">>
    /\ conv[EventUser] = MAIN_MENU
    /\ HasProfile(EventUser)
    /\ Profile(EventUser).plan = Some(<<"A">>)
    /\ get_workouts(workouts, event.user) # <<>>

\* the text selects the menu entry with this label, as handle_menu reads it
Selects(text, label) == StartsWith(Lower(Strip(text)), label)

\* the required fields of a row that are unset: empty, zero or absent
UnsetFields(row) ==
    (IF row.goal = <<>> THEN {"goal"} ELSE {})
        \cup (IF row.experience = <<>> THEN {"experience"} ELSE {})
        \cup (IF row.weight \in {None, Some(Fin(0, 0))} THEN {"weight"} ELSE {})
        \cup (IF row.height \in {None, Some(Fin(0, 0))} THEN {"height"} ELSE {})
        \cup (IF row.days = 0 THEN {"days"} ELSE {})

\* the row holds height 180.5, weight 75, 4 days, Intermediate, hypertrophy
IsExampleProfile(row) ==
    /\ row.height = Some([cls |-> "fin", m |-> 1805, e |-> 1])
    /\ row.weight = Some([cls |-> "fin", m |-> 75, e |-> 0])
    /\ row.days = 4
    /\ row.experience = <<"I", "n", "t", "e", "r", "m", "e", "d", "i", "a", "t", "e">>
    /\ row.goal = <<"h", "y", "p", "e", "r", "t", "r", "o", "p", "h", "y">>

\* C6: 'show plan' and 'generate plan' each emit their 'complete the profile'
\* message if and only if at least one of goal, experience, weight, height,
\* days is unset; then the generation service is not invoked and the tables
\* are unchanged.  With height 180.5, weight 75, 4 days, intermediate and
\* hypertrophy written, neither emits it.
C6_CorrectiveIffIncomplete ==
    [][(event'.kind = "text" /\ event'.from = MAIN_MENU) =>
         LET u == Val(event'.user)
             row == Val(users[u])
             unset == UnsetFields(row) # {}
         IN /\ Selects(event'.text, LabelShowPlan) =>
                 /\ Sent(replies', "complete_profile_to_view") <=> unset
                 /\ IsExampleProfile(row) => ~Sent(replies', "complete_profile_to_view")
            /\ Selects(event'.text, LabelGeneratePlan) =>
                 /\ Sent(replies', "complete_profile_to_generate") <=> unset
                 /\ IsExampleProfile(row) => ~Sent(replies', "complete_profile_to_generate")
                 /\ inflight' = IF unset THEN None ELSE Some(u)
            /\ (unset /\ (\/ Selects(event'.text, LabelShowPlan)
                          \/ Selects(event'.text, LabelGeneratePlan))) =>
                 /\ users' = users
                 /\ workouts' = workouts]_vars

\* 'generate plan' is refused while the plan "A" is stored and only the goal is unset
C6_Witness ==
    /\ TextIn(MAIN_MENU)
    /\ Selects(event.text, LabelGeneratePlan)
    /\ replies = <<Msg("complete_profile_to_generate")>>
    /\ UnsetFields(Profile(EventUser)) = {"goal"}
    /\ Profile(EventUser).plan = Some(<<"A">>)
    /\ inflight = None

\* C7: when the generation service fails, both tables (the stored plan, its
\* timestamp and every profile field) are exactly what they were, an error
\* message carrying the failure reason is sent, and the session is in Menu
\* with no call in flight, so the action can be retried.
C7_FailureKeepsPlan ==
    [][event'.kind = "generation_failed" =>
         LET u == Val(event'.user)
         IN /\ inflight = Some(u)
            /\ UnsetFields(Val(users[u])) = {}
            /\ users' = users
            /\ workouts' = workouts
            /\ replies' = <<MsgText("generation_error", event'.text)>>
            /\ event'.text \in FailureReasons
            /\ conv'[u] = MAIN_MENU
            /\ inflight' = None]_vars

\* a generation fails on the second day while yesterday's plan "A" is stored
C7_Witness ==
    /\ event.kind = "generation_failed"
    /\ Profile(EventUser).plan = Some(<<"A">>)
    /\ Profile(EventUser).plan_date = Some(0)
    /\ today = 1
    /\ conv[EventUser] = MAIN_MENU

\* C8 as stated: after a successful 'generate plan' the stored plan is exactly
\* the text the service returned, and an immediately following 'show plan'
\* returns exactly that text.
C8_ShowPlanReturnsGenerated ==
    [][/\ event'.kind = "generated" =>
            /\ Val(users'[Val(event'.user)]).plan = Some(event'.text)
            /\ Val(users'[Val(event'.user)]).plan_date = Some(today')
       /\ (/\ event.kind = "generated"
           /\ event'.kind = "text"
           /\ event'.user = event.user
           /\ Selects(event'.text, LabelShowPlan)) =>
            replies' = <<MsgText("plan", event.text)>>]_vars

\* C9: 'show plan' checks completeness first and the plan second: on an
\* incomplete profile it emits 'complete your profile' even when a plan is
\* stored, on a complete profile without a plan 'no plan yet', otherwise the
\* stored plan text; the tables are unchanged in all three cases.  A plan is
\* stored when the plan column holds a non-empty text.
C9_ShowPlanOrder ==
    [][(event'.kind = "text" /\ event'.from = MAIN_MENU
          /\ Selects(event'.text, LabelShowPlan)) =>
         LET u == Val(event'.user)
             row == Val(users[u])
         IN /\ replies' =
                 IF UnsetFields(row) # {} THEN <<Msg("complete_profile_to_view")>>
                 ELSE IF row.plan \in {None, Some(<<>>)} THEN <<Msg("no_plan_yet")>>
                 ELSE <<MsgText("plan", Val(row.plan))>>
            /\ users' = users
            /\ workouts' = workouts
            /\ conv'[u] = MAIN_MENU]_vars

\* the plan "B" is stored, the goal has been emptied, and 'show plan' asks
\* for the profile to be completed
C9_Witness ==
    /\ TextIn(MAIN_MENU)
    /\ Selects(event.text, LabelShowPlan)
    /\ replies = <<Msg("complete_profile_to_view")>>
    /\ Profile(EventUser).plan = Some(<<"B">>)
    /\ "goal" \in UnsetFields(Profile(EventUser))

\* C10: 'mark workout complete' appends exactly one completion record of the
\* identity dated today when a plan is stored and nothing when none is; each
\* invocation on the same date appends its own record, so the identity's
\* count grows by one each time.
C10_MarkAppendsOne ==
    [][(event'.kind = "text" /\ event'.from = MAIN_MENU
          /\ Selects(event'.text, LabelPerformWorkout)) =>
         LET u == Val(event'.user)
             row == Val(users[u])
         IN /\ users' = users
            /\ IF row.plan \in {None, Some(<<>>)}
               THEN workouts' = workouts /\ replies' = <<Msg("generate_plan_first")>>
               ELSE /\ workouts' = Append(workouts, [user_id |-> u, date |-> today])
                    /\ Len(get_workouts(workouts', Some(u)))
                         = Len(get_workouts(workouts, Some(u))) + 1
                    /\ replies' = <<MsgNums("workout_marked", <<today>>)>>]_vars

\* a second completion is recorded on the same day
C10_Witness ==
    /\ TextIn(MAIN_MENU)
    /\ Selects(event.text, LabelPerformWorkout)
    /\ get_workouts(workouts, event.user) = <<today, today>>

\* float(text.strip().replace(',', '.')) of a text
RealOf(text) == ParseFloat(Replace(Strip(text), ",", "."))

\* the text denotes a strictly positive real number
IsPositiveReal(text) ==
    RealOf(text).ok /\ RealOf(text).val.cls = "fin" /\ RealOf(text).val.m > 0

\* C11 as stated: in EditingField(height) an input that, with a decimal comma
\* read as a point, parses to a strictly positive real writes that value to
\* the height field only and moves to Menu, and every other input writes
\* nothing and stays in EditingField(height); EditingField(weight) does the
\* same on the weight field.
C11_PositiveRealIsWritten ==
    [][(event'.kind = "text" /\ event'.from \in {EDIT_HEIGHT, EDIT_WEIGHT}) =>
         LET u == Val(event'.user)
             field == IF event'.from = EDIT_HEIGHT THEN "height" ELSE "weight"
         IN IF IsPositiveReal(event'.text)
            THEN /\ users' = [users EXCEPT ![u] =
                                 Some([Val(@) EXCEPT ![field] = Some(RealOf(event'.text).val)])]
                 /\ workouts' = workouts
                 /\ conv'[u] = MAIN_MENU
            ELSE /\ users' = users
                 /\ workouts' = workouts
                 /\ conv'[u] = event'.from]_vars

\* the text, trimmed, is an unsigned run of decimal digits
IsIntegerLiteral(text) == IsDecimalText(Strip(text))

\* C12 as stated: in EditingField(days), days_per_week is written and the
\* session moves to Menu if and only if the input is a base-10 integer
\* literal with value in [1,7]; for every other input nothing is written and
\* the session stays in EditingField(days) with a re-prompt.
C12_DaysInRange ==
    [][(event'.kind = "text" /\ event'.from = EDIT_DAYS) =>
         LET u == Val(event'.user)
             value == DigitsValue(Strip(event'.text))
         IN IF IsIntegerLiteral(event'.text) /\ value \in 1..7
            THEN /\ users' = [users EXCEPT ![u] = Some([Val(@) EXCEPT !.days = value])]
                 /\ workouts' = workouts
                 /\ conv'[u] = MAIN_MENU
            ELSE /\ users' = users
                 /\ workouts' = workouts
                 /\ conv'[u] = EDIT_DAYS
                 /\ \/ Sent(replies', "days_not_a_number")
                    \/ Sent(replies', "days_out_of_range")]_vars

\* the field an EditingField(experience | goal) state edits
FreeTextField(s) == IF s = EDIT_EXPERIENCE THEN "experience" ELSE "goal"

\* C13 as stated: in EditingField(experience) and EditingField(goal) any
\* non-empty input text is stored verbatim (same characters, case preserved)
\* in the corresponding field, no other field changes, and the session moves
\* to Menu.
C13_StoredVerbatim ==
    [][(/\ event'.kind = "text"
        /\ event'.from \in {EDIT_EXPERIENCE, EDIT_GOAL}
        /\ event'.text # <<>>) =>
         LET u == Val(event'.user)
         IN /\ users' = [users EXCEPT ![u] =
                            Some([Val(@) EXCEPT ![FreeTextField(event'.from)] = event'.text])]
            /\ workouts' = workouts
            /\ conv'[u] = MAIN_MENU]_vars

\* C13 as amended: in EditingField(experience) and EditingField(goal) any
\* input text is stored with its leading and trailing whitespace removed and
\* otherwise verbatim (inner characters and case preserved) in the
\* corresponding field, no other field changes, and the session moves to
\* Menu; a text of whitespace only leaves the field empty, that is unset.
C13_StoredTrimmed ==
    [][(event'.kind = "text" /\ event'.from \in {EDIT_EXPERIENCE, EDIT_GOAL}) =>
         LET u == Val(event'.user)
             field == FreeTextField(event'.from)
         IN /\ users' = [users EXCEPT ![u] =
                            Some([Val(@) EXCEPT ![field] = Strip(event'.text)])]
            /\ workouts' = workouts
            /\ conv'[u] = MAIN_MENU
            /\ Strip(event'.text) = <<>> => field \in UnsetFields(Val(users'[u]))]_vars

\* " Intermediate " is stored as "Intermediate" by a user who trains 4 days
C13_Witness ==
    /\ TextIn(EDIT_EXPERIENCE)
    /\ event.text = <<" ", "I", "n", "t", "e", "r", "m", "e", "d", "i", "a", "t", "e", " ">>
    /\ Profile(EventUser).experience = <<"I", "n", "t", "e", "r", "m", "e", "d", "i", "a", "t", "e">>
    /\ Profile(EventUser).days = 4
    /\ conv[EventUser] = MAIN_MENU

\* the state each edit selector and the delete selector leads to
SelectorTargets ==
    {<<LabelEditHeight, EDIT_HEIGHT>>, <<LabelEditWeight, EDIT_WEIGHT>>,
     <<LabelEditDays, EDIT_DAYS>>, <<LabelEditExperience, EDIT_EXPERIENCE>>,
     <<LabelEditGoal, EDIT_GOAL>>, <<LabelEditName, EDIT_NAME>>,
     <<LabelDelete, CONFIRM_DELETE>>}

\* the selectors of the six actions
ActionLabels ==
    {LabelShowPlan, LabelGeneratePlan, LabelPastWorkouts, LabelPerformWorkout,
     LabelStats, LabelBmi}

\* C14: in Menu each recognized selector leads to its own target: the six
\* edit selectors move to the matching EditingField state and 'delete
\* profile' to ConfirmingDeletion, all seven leaving both tables unchanged
\* (nothing is deleted), and each of the six actions leaves the session in
\* Menu, 'generate plan' both while its call is in flight and when it returns.
C14_SelectorTargets ==
    [][/\ (event'.kind = "text" /\ event'.from = MAIN_MENU) =>
            LET u == Val(event'.user)
            IN /\ \A st \in SelectorTargets :
                      Selects(event'.text, st[1]) =>
                          /\ conv'[u] = st[2]
                          /\ users' = users
                          /\ workouts' = workouts
                          /\ inflight' = None
               /\ \A l \in ActionLabels :
                      Selects(event'.text, l) => conv'[u] = MAIN_MENU
       /\ event'.kind \in {"generated", "generation_failed"} =>
            conv'[Val(event'.user)] = MAIN_MENU]_vars

\* 'edit days' is selected by a profile with a plan and a completion record
C14_Witness ==
    /\ TextIn(MAIN_MENU)
    /\ event.text = Cap(LabelEditDays)
    /\ conv[EventUser] = EDIT_DAYS
    /\ Profile(EventUser).plan = Some(<<"A">>)
    /\ get_workouts(workouts, event.user) # <<>>

\* the thirteen selectors
Labels == {st[1] : st \in SelectorTargets} \cup ActionLabels

\* the text, trimmed and in lower case, begins with one of the selectors
IsRecognized(text) ==
    LET t == Lower(Strip(text))
    IN \E l \in Labels : \E n \in 0..Len(t) : SubSeq(t, 1, n) = l

\* C15: in Menu an input that is not a recognized selector leaves the session
\* in Menu, changes no profile field, plan or completion record, starts no
\* generation call, and emits the 'unknown command' directive.
C15_UnknownCommand ==
    [][(event'.kind = "text" /\ event'.from = MAIN_MENU /\ ~IsRecognized(event'.text)) =>
         /\ conv'[Val(event'.user)] = MAIN_MENU
         /\ users' = users
         /\ workouts' = workouts
         /\ inflight' = None
         /\ replies' = <<Msg("unknown_command")>>]_vars

\* the first word of 'show plan' alone is answered with 'unknown command'
\* while a plan and a completion record are stored
C15_Witness ==
    /\ TextIn(MAIN_MENU)
    /\ event.text = SubSeq(Cap(LabelShowPlan), 1, 8)
    /\ replies = <<Msg("unknown_command")>>
    /\ conv[EventUser] = MAIN_MENU
    /\ Profile(EventUser).plan = Some(<<"B">>)
    /\ get_workouts(workouts, event.user) # <<>>

\* the weekly target the volume table gives an experience text
WeeklyTarget(experience) ==
    LET level == Lower(experience)
    IN IF level = ExperienceBeginner THEN 10
       ELSE IF level = ExperienceIntermediate THEN 15
       ELSE IF level = ExperienceAdvanced THEN 20
       ELSE 12

\* k is an integer nearest to n / d
IsNearest(k, n, d) == 2 * (k * d - n) <= d /\ 2 * (n - k * d) <= d

\* C16 as stated: the plan request's weekly volume target is 10 for beginner,
\* 15 for intermediate, 20 for advanced and 12 for any other experience text,
\* and the per-session target is the weekly target divided by days_per_week
\* rounded to the nearest integer, with a minimum of 1; in particular
\* beginner with 4 days gives weekly target 10 and per-session target 3.
C16_VolumeTargets ==
    ~IsNone(request) =>
        LET row == Profile(Val(inflight))
            weekly == WeeklyTarget(row.experience)
            session == Val(request).sets_per_session
        IN /\ Val(request).sets_per_week = weekly
           /\ Val(request).days = row.days
           /\ session >= 1
           /\ IsNearest(session, weekly, row.days) \/ (session = 1 /\ 2 * weekly < row.days)
           /\ (Lower(row.experience) = ExperienceBeginner /\ row.days = 4) =>
                 weekly = 10 /\ session = 3

\* the number of user u's rows of w
Total(w, u) == Cardinality({i \in 1..Len(w) : w[i].user_id = u})

\* the number of user u's rows of w whose age on the day now is below days
Younger(w, u, now, days) ==
    Cardinality({i \in 1..Len(w) : w[i].user_id = u /\ now - w[i].date < days})

\* the number of user u's rows of w whose age on the day now is exactly age
Aged(w, u, now, age) ==
    Cardinality({i \in 1..Len(w) : w[i].user_id = u /\ now - w[i].date = age})

\* user u's rows are three, dated 6, 7 and 31 days before the day now
IsExampleLog(w, u, now) ==
    Total(w, u) = 3 /\ \A age \in {6, 7, 31} : Aged(w, u, now, age) = 1

\* C17: 'show statistics' reports total = the number of the identity's
\* records, last_7 = the number of them whose age in whole days is strictly
\* less than 7 and last_30 = the number whose age is strictly less than 30;
\* for records dated exactly 6, 7 and 31 days before today it reports
\* last_7 = 1, last_30 = 2, total = 3, and for an empty log the 'no workouts
\* yet' message instead of zeros.  It changes neither table.
C17_StatsWindows ==
    [][(event'.kind = "text" /\ event'.from = MAIN_MENU
          /\ Selects(event'.text, LabelStats)) =>
         LET u == Val(event'.user)
         IN /\ replies'[1] =
                 IF Total(workouts, u) = 0 THEN Msg("no_workouts")
                 ELSE MsgNums("stats", <<Total(workouts, u),
                                         Younger(workouts, u, today, 7),
                                         Younger(workouts, u, today, 30)>>)
            /\ IsExampleLog(workouts, u, today) =>
                 replies'[1] = MsgNums("stats", <<3, 1, 2>>)
            /\ users' = users
            /\ workouts' = workouts
            /\ conv'[u] = MAIN_MENU]_vars

\* the statistics of records aged 6, 7 and 31 days, among another user's rows
C17_Witness ==
    /\ TextIn(MAIN_MENU)
    /\ Selects(event.text, LabelStats)
    /\ IsExampleLog(workouts, EventUser, today)
    /\ replies[1] = MsgNums("stats", <<3, 1, 2>>)
    /\ Len(workouts) > 3

\* the BMI band of the quotient num / den
Band(num, den) ==
    IF 10 * num < 185 * den THEN "underweight"
    ELSE IF num < 25 * den THEN "normal"
    ELSE IF num < 30 * den THEN "overweight"
    ELSE IF num < 35 * den THEN "obesity I"
    ELSE IF num < 40 * den THEN "obesity II"
    ELSE "obesity III"

\* the finite float v has at most one decimal and is within 0.05 of num / den
IsRoundedToTenth(v, num, den) ==
    /\ v.cls = "fin"
    /\ v.e <= 1
    /\ 20 * (v.m * den - num * Pow10(v.e)) <= den * Pow10(v.e)
    /\ 20 * (num * Pow10(v.e) - v.m * den) <= den * Pow10(v.e)

\* C18: for weight > 0 and height > 0 'show BMI' reports weight / (height/100)^2
\* rounded to one decimal with the one band of six that holds the quotient:
\* <18.5 underweight, [18.5,25) normal, [25,30) overweight, [30,35) obesity I,
\* [35,40) obesity II, >=40 obesity III; BMI(70,175) = 22.9 normal and
\* BMI(120,170) = 41.5 obesity III; if weight or height is not positive no
\* BMI is computed and the user is asked to fill them in.
C18_BmiBands ==
    [][(event'.kind = "text" /\ event'.from = MAIN_MENU
          /\ Selects(event'.text, LabelBmi)) =>
         LET u == Val(event'.user)
             weight == Val(Val(users[u]).weight)
             height == Val(Val(users[u]).height)
             \* weight / (height / 100)^2 = num / den
             num == weight.m * Pow10(4) * Pow10(height.e) * Pow10(height.e)
             den == Pow10(weight.e) * height.m * height.m
             reply == replies'[1]
         IN /\ IF weight.m > 0 /\ height.m > 0
               THEN /\ reply.msg = "bmi"
                    /\ IsRoundedToTenth(reply.val[1], num, den)
                    /\ reply.text = <<Band(num, den)>>
               ELSE reply = Msg("bmi_fill_weight_and_height")
            /\ (weight = Fin(70, 0) /\ height = Fin(175, 0)) =>
                 reply = MsgVal("bmi", <<"normal">>, Fin(229, 1))
            /\ (weight = Fin(120, 0) /\ height = Fin(170, 0)) =>
                 reply = MsgVal("bmi", <<"obesity III">>, Fin(415, 1))
            /\ users' = users
            /\ workouts' = workouts
            /\ conv'[u] = MAIN_MENU]_vars

\* 73.9 kg at 200 cm is reported as 18.5 and underweight
C18_Witness ==
    /\ TextIn(MAIN_MENU)
    /\ Selects(event.text, LabelBmi)
    /\ Profile(EventUser).weight = Some(Fin(739, 1))
    /\ Profile(EventUser).height = Some(Fin(200, 0))
    /\ replies[1] = MsgVal("bmi", <<"underweight">>, Fin(185, 1))

\* the number of user u's rows of w dated d, and dated after d
Dated(w, u, d) == Cardinality({i \in 1..Len(w) : w[i].user_id = u /\ w[i].date = d})
DatedAfter(w, u, d) == Cardinality({i \in 1..Len(w) : w[i].user_id = u /\ w[i].date > d})

\* how many of the c rows of one date are among the k most recent rows when
\* newer rows have a later date
AmongRecent(c, newer, k) ==
    IF k <= newer THEN 0 ELSE IF k - newer < c THEN k - newer ELSE c

\* C19: 'show history' lists min(10, n) completion dates of the identity's n
\* records, the most recent ones in descending date order, a date recorded
\* several times being listed as many times; for n = 0 it emits the 'no
\* workouts yet' message.  It changes neither table.
C19_HistoryRecent ==
    [][(event'.kind = "text" /\ event'.from = MAIN_MENU
          /\ Selects(event'.text, LabelPastWorkouts)) =>
         LET u == Val(event'.user)
             n == Total(workouts, u)
             k == IF n < 10 THEN n ELSE 10
             listed == replies'[1].nums
         IN /\ IF n = 0 THEN replies' = <<Msg("no_workouts")>>
               ELSE /\ Len(replies') = 1
                    /\ replies'[1].msg = "history"
                    /\ Len(listed) = k
                    /\ \A i \in 1..(k - 1) : listed[i] >= listed[i + 1]
                    /\ \A i \in 1..k : Dated(workouts, u, listed[i]) > 0
                    /\ \A j \in 1..Len(workouts) :
                          workouts[j].user_id = u =>
                              Cardinality({i \in 1..k : listed[i] = workouts[j].date})
                                  = AmongRecent(Dated(workouts, u, workouts[j].date),
                                                DatedAfter(workouts, u, workouts[j].date), k)
            /\ users' = users
            /\ workouts' = workouts
            /\ conv'[u] = MAIN_MENU]_vars

\* the user has 11 records, the oldest of them 31 days old, and the history
\* lists the 10 others
C19_Witness ==
    /\ TextIn(MAIN_MENU)
    /\ Selects(event.text, LabelPastWorkouts)
    /\ Total(workouts, EventUser) = 11
    /\ Aged(workouts, EventUser, today, 31) = 1
    /\ Len(replies[1].nums) = 10
    /\ \A i \in 1..10 : today - replies[1].nums[i] < 31

\* C20 as stated: while the generation-service call of one identity is in
\* flight, an input event of another identity can still be processed: in no
\* reachable state is a menu input of identity b unable to be handled while
\* identity a's call has not returned.
C20_OthersNotBlocked ==
    \A a \in Users, b \in Users :
        (a # b /\ inflight = Some(a) /\ conv[b] = MAIN_MENU) =>
            ENABLED Menu(b, {Cap(LabelShowPlan)})

\* the states in which a field is edited
EditStates ==
    {EDIT_HEIGHT, EDIT_WEIGHT, EDIT_DAYS, EDIT_EXPERIENCE, EDIT_GOAL, EDIT_NAME}

\* the selectors of the menu operations that need the profile: show plan,
\* generate plan, BMI, mark workout, and the statistics, which end with the
\* menu display
ProfileLabels ==
    {LabelShowPlan, LabelGeneratePlan, LabelBmi, LabelPerformWorkout, LabelStats}

\* a text handled in state s is an operation that requires a profile
RequiresProfile(s, text) ==
    \/ s \in EditStates
    \/ s = MAIN_MENU /\ \E l \in ProfileLabels : Selects(text, l)

\* C21 as stated: when an operation that requires a profile (menu display,
\* edit, show or generate plan, BMI, mark workout) is handled for an identity
\* whose profile is absent from the store, the session is forced back to
\* AwaitingRegistration rather than remaining in Menu or an EditingField state.
C21_AbsentProfileForcesRegistration ==
    [][(/\ event'.kind = "text"
        /\ IsNone(users[Val(event'.user)])
        /\ RequiresProfile(event'.from, event'.text)) =>
         conv'[Val(event'.user)] = REGISTRATION]_vars

\* the confirmation an edit handler sends once update_user_field has returned
ConfirmationOf(s) ==
    CASE s = EDIT_HEIGHT -> "height_updated"
      [] s = EDIT_WEIGHT -> "weight_updated"
      [] s = EDIT_DAYS -> "days_updated"
      [] s = EDIT_EXPERIENCE -> "experience_updated"
      [] s = EDIT_GOAL -> "goal_updated"
      [] s = EDIT_NAME -> "name_updated"

\* the fields the edit handler of state s passes to update_user_field for an
\* accepted text, each with the value it passes
WrittenFields(s, text) ==
    CASE s = EDIT_HEIGHT -> {<<"height", Some(RealOf(text).val)>>}
      [] s = EDIT_WEIGHT -> {<<"weight", Some(RealOf(text).val)>>}
      [] s = EDIT_DAYS -> {<<"days", DigitsValue(Strip(text))>>}
      [] s = EDIT_EXPERIENCE -> {<<"experience", Strip(text)>>}
      [] s = EDIT_GOAL -> {<<"goal", Strip(text)>>}
      [] s = EDIT_NAME -> {<<"first_name", Split(text)[1]>>,
                           <<"last_name", Join(Tail(Split(text)))>>}

\* C22 as stated: the store's single-field update signals not-found when no
\* profile exists for the identity, so that its caller never goes on to
\* confirm the update as done; and when the profile exists, a read
\* immediately after the update observes the written value.
C22_UpdateSignalsNotFound ==
    [][(/\ event'.kind = "text"
        /\ event'.from \in EditStates
        /\ Sent(replies', ConfirmationOf(event'.from))) =>
         LET u == Val(event'.user)
         IN /\ ~IsNone(users[u])
            /\ \A fv \in WrittenFields(event'.from, event'.text) :
                   Val(get_user(users', Some(u)))[fv[1]] = fv[2]]_vars

\* C23: all state is partitioned by identity: no input event handled for
\* identity a (registration, any edit, plan generation, mark workout,
\* deletion, cancel) changes the profile, the plan, the completion records or
\* the session (conversation state and session data) of another identity b,
\* under any interleaving of the two identities' events.
C23_PartitionedByIdentity ==
    [][\A a \in Users, b \in Users :
          (a # b /\ event'.user = Some(a)) =>
              /\ users'[b] = users[b]
              /\ RowsOf(workouts', Some(b)) = RowsOf(workouts, Some(b))
              /\ conv'[b] = conv[b]
              /\ user_data'[b] = user_data[b]]_vars

\* the first user's profile and record are deleted while the second keeps a
\* profile, a plan and a completion record
C23_Witness ==
    /\ TextIn(CONFIRM_DELETE)
    /\ event.user = Some(1)
    /\ Sent(replies, "profile_deleted")
    /\ ~HasProfile(1)
    /\ HasProfile(2)
    /\ ~NoPlan(Profile(2))
    /\ workouts # <<>>
    /\ RowsOf(workouts, Some(2)) = workouts

\* C24: in every reachable state of a single session per identity, if the
\* session state is Menu, an EditingField or ConfirmingDeletion then a profile
\* exists in the store for the identity, and if it is AwaitingRegistration
\* then none exists, so that the create of a registration never meets an
\* existing identity.
C24_SessionMatchesStore ==
    /\ \A u \in Users :
          /\ conv[u] \in {MAIN_MENU, CONFIRM_DELETE} \cup EditStates => HasProfile(u)
          /\ conv[u] = REGISTRATION => ~HasProfile(u)
    /\ TextIn(REGISTRATION) => ~event.raised

\* /help is answered in EditingField(height) by a user whose profile exists
\* with a plan and a height that reads as NULL
C24_Witness ==
    /\ event.kind = "help"
    /\ conv[EventUser] = EDIT_HEIGHT
    /\ HasProfile(EventUser)
    /\ IsNone(Profile(EventUser).height)
    /\ ~NoPlan(Profile(EventUser))

\* a stored weight or height is 0 or a strictly positive real number
IsUnsetOrPositiveReal(column) ==
    ~IsNone(column) /\ Val(column).cls = "fin" /\ Val(column).m >= 0

\* C25 as stated: after any sequence of input events every stored profile has
\* weight and height each either 0 (unset) or a strictly positive real
\* number, and days_per_week an integer that is 0 or in [1,7]; no accepted
\* input, special numeric texts included, stores a value outside these ranges.
C25_StoredRanges ==
    \A u \in Users :
        HasProfile(u) =>
            /\ IsUnsetOrPositiveReal(Profile(u).weight)
            /\ IsUnsetOrPositiveReal(Profile(u).height)
            /\ Profile(u).days \in 0..7

\* C26 as stated: in every reachable state, if at least one completion record
\* exists for an identity then a profile exists for it and the profile has a
\* stored plan (one that 'show plan' shows and 'mark workout' accepts): a
\* stored plan is never cleared except by deleting the whole profile, and
\* completion records never outlive their profile.
C26_RecordsImplyPlan ==
    \A u \in Users :
        get_workouts(workouts, Some(u)) # <<>> =>
            HasProfile(u) /\ ~NoPlan(Profile(u))

\* C27 as stated: completeness is monotone: once a profile has all five of
\* goal, experience, weight, height and days set, no input, valid or invalid,
\* empty or whitespace-only text in EditingField(goal) or
\* EditingField(experience) included, makes it incomplete again; only the
\* deletion of the profile ends completeness.
C27_CompletenessMonotone ==
    [][\A u \in Users :
          (/\ ~IsNone(users[u])
           /\ UnsetFields(Val(users[u])) = {}
           /\ ~IsNone(users'[u])) =>
              UnsetFields(Val(users'[u])) = {}]_vars

=============================================================================
